---- MODULE Spec2Model ----
(***************************************************************************)
(* Model of the CV screening pipeline of Ollama-Prototype:                 *)
(*   src/llmutils.py   extract_json, chat_json                             *)
(*   src/schemas.py    CVFit, RankingResult                                *)
(*   src/jobfinder.py  normalize_list_field, aggregate_cv_scores,          *)
(*                     append_metrics, main                                *)
(* Python strings are modelled as sequences of one-character strings, so   *)
(* that strip(), str() and the regular expressions act character by        *)
(* character.  Scores are hundredths; a mean is an exact reduced fraction. *)
(***************************************************************************)
EXTENDS Integers, Sequences, FiniteSets, TLC

VARIABLES
    arg,          \* argument of the pure function under check
    ret,          \* its return value (meaningful once called)
    called,       \* TRUE once the function has been applied to arg
    pc,           \* position of main()
    cvs,          \* list_cvs(): the candidate identifiers, sorted
    n_samples,    \* N_SAMPLES
    ci,           \* index in cvs of the candidate being processed
    per_run,      \* main's per_run list of the current candidate
    aggregated,   \* main's aggregated list
    scoreCalls,   \* number of scoring requests issued, per candidate index
    rankCalls,    \* number of ranking requests issued
    sampleFailed, \* TRUE once a scoring sample raised
    result,       \* the RankingResult main constructed (meaningful from "save")
    runDocs,      \* documents under logs/runs written by this run
    metricsRows   \* rows appended to logs/metrics.csv by this run

vars == <<arg, ret, called, pc, cvs, n_samples, ci, per_run, aggregated,
          scoreCalls, rankCalls, sampleFailed, result, runDocs, metricsRows>>

mainVars == <<pc, cvs, n_samples, ci, per_run, aggregated, scoreCalls,
              rankCalls, sampleFailed, result, runDocs, metricsRows>>

fnVars == <<arg, ret, called>>

(***************************************************************************)
(* Bounds                                                                  *)
(***************************************************************************)
MaxListLen == 5

MaxStrLen == 3

MaxAggSamples == 3

MaxTextLen == 4

MaxSamples == 2

MaxCvs == 2

SeqsUpTo(S, n) == UNION {[1..k -> S] : k \in 0..n}

Min(a, b) == IF a < b THEN a ELSE b

(***************************************************************************)
(* Python values and strings                                               *)
(***************************************************************************)
PyNone == [t |-> "none"]

PyNum(n) == [t |-> "num", v |-> n]

PyStr(s) == [t |-> "str", v |-> s]

PyList(l) == [t |-> "list", v |-> l]

Whitespace == {" ", "\t", "\n"}

RECURSIVE LStrip(_)
LStrip(s) ==
    IF s = <<>> THEN <<>>
    ELSE IF Head(s) \in Whitespace THEN LStrip(Tail(s)) ELSE s

RECURSIVE RStrip(_)
RStrip(s) ==
    IF s = <<>> THEN <<>>
    ELSE IF s[Len(s)] \in Whitespace THEN RStrip(SubSeq(s, 1, Len(s) - 1)) ELSE s

Strip(s) == RStrip(LStrip(s))

DigitChar(d) == <<"0", "1", "2", "3", "4", "5", "6", "7", "8", "9">>[d + 1]

RECURSIVE NatToStr(_)
NatToStr(n) ==
    IF n < 10 THEN <<DigitChar(n)>>
    ELSE NatToStr(n \div 10) \o <<DigitChar(n % 10)>>

\* str(v) for the values a JSON list can hold
ToStr(v) ==
    CASE v.t = "str" -> v.v
      [] v.t = "num" -> NatToStr(v.v)
      [] v.t = "none" -> <<"N", "o", "n", "e">>

NotSpecified == <<"N", "o", "t", " ", "s", "p", "e", "c", "i", "f", "i", "e", "d">>

DefaultMinItems == 3

(***************************************************************************)
(* jobfinder.normalize_list_field                                          *)
(***************************************************************************)
RECURSIVE KeepNonBlank(_)
KeepNonBlank(l) ==
    IF l = <<>> THEN <<>>
    ELSE IF Strip(ToStr(Head(l))) # <<>>
         THEN <<ToStr(Head(l))>> \o KeepNonBlank(Tail(l))
         ELSE KeepNonBlank(Tail(l))

RECURSIVE PadTo(_, _)
PadTo(l, n) == IF Len(l) < n THEN PadTo(Append(l, NotSpecified), n) ELSE l

Truncate(l, n) == SubSeq(l, 1, Min(Len(l), n))

normalize_list_field_untruncated(value, min_items) ==
    LET v1 == IF value.t = "str" THEN PyList(<<value>>) ELSE value
    IN  IF v1.t # "list"
        THEN [i \in 1..min_items |-> NotSpecified]
        ELSE PadTo(KeepNonBlank(v1.v), min_items)

normalize_list_field(value, min_items) ==
    LET v1 == IF value.t = "str" THEN PyList(<<value>>) ELSE value
    IN  IF v1.t # "list"
        THEN [i \in 1..min_items |-> NotSpecified]
        ELSE Truncate(PadTo(KeepNonBlank(v1.v), min_items), min_items)

(***************************************************************************)
(* Specification SpecNorm: normalize_list_field applied to bounded inputs  *)
(***************************************************************************)
StrChars == {" ", "a", "\t"}

ListElems ==
    {PyStr(<<>>), PyStr(<<" ">>), PyStr(<<"a">>), PyStr(<<"b">>),
     PyStr(<<" ", "c">>), PyNum(7), PyNone}

NormInputs ==
    {PyNone, PyNum(0), PyNum(12)}
    \cup {PyStr(s) : s \in SeqsUpTo(StrChars, MaxStrLen)}
    \cup {PyList(l) : l \in SeqsUpTo(ListElems, MaxListLen)}

MainIdle ==
    /\ pc = "idle"
    /\ cvs = <<>>
    /\ n_samples = 0
    /\ ci = 0
    /\ per_run = <<>>
    /\ aggregated = <<>>
    /\ scoreCalls = <<>>
    /\ rankCalls = 0
    /\ sampleFailed = FALSE
    /\ result = <<>>
    /\ runDocs = <<>>
    /\ metricsRows = <<>>

InitNorm ==
    /\ arg \in NormInputs
    /\ ret = <<>>
    /\ called = FALSE
    /\ MainIdle

NormalizeCall ==
    /\ ~called
    /\ called' = TRUE
    /\ ret' = normalize_list_field(arg, DefaultMinItems)
    /\ UNCHANGED <<arg, mainVars>>

NextNorm == NormalizeCall

SpecNorm == InitNorm /\ [][NextNorm]_vars

\* The list normalize_list_field looks at: a string is wrapped, a list is
\* itself, anything else has no items.
ItemsOf(value) ==
    CASE value.t = "str" -> <<value>>
      [] value.t = "list" -> value.v
      [] OTHER -> <<>>

NonBlankIdx(items) == {i \in 1..Len(items) : Strip(ToStr(items[i])) # <<>>}

\* C6: normalize_list_field returns exactly 3 strings, each non-empty after
\* trimming; the kept items are the first non-blank items of the input in
\* input order, followed only by 'Not specified' padding.
C6_NormalizeArity ==
    called =>
        LET items == ItemsOf(arg)
            nb == NonBlankIdx(items)
            k == Min(Cardinality(nb), 3)
        IN  /\ Len(ret) = 3
            /\ \A i \in 1..3 : Strip(ret[i]) # <<>>
            /\ \E f \in [1..k -> 1..Len(items)] :
                  /\ \A i \in 1..k : f[i] \in nb /\ ret[i] = ToStr(items[f[i]])
                  /\ \A i, j \in 1..k : i < j => f[i] < f[j]
                  /\ \A i \in 1..k : \A m \in nb : m < f[i] => \E j \in 1..k : j < i /\ f[j] = m
            /\ \A i \in (k + 1)..3 : ret[i] = NotSpecified

C6_Witness ==
    /\ called
    /\ arg.t = "list"
    /\ Cardinality(NonBlankIdx(arg.v)) > 3
    /\ \E i \in 1..Len(arg.v) : i < 3 /\ i \notin NonBlankIdx(arg.v)

(***************************************************************************)
(* schemas.CVFit and jobfinder.aggregate_cv_scores                         *)
(***************************************************************************)
RECURSIVE GCD(_, _)
GCD(a, b) == IF b = 0 THEN a ELSE GCD(b, a % b)

\* a score: an exact fraction of hundredths, in lowest terms
Frac(n, d) == LET g == GCD(n, d) IN [num |-> n \div g, den |-> d \div g]

FracAdd(x, y) == Frac(x.num * y.den + y.num * x.den, x.den * y.den)

FracGeq(x, c) == x.num >= c * x.den

FracLeq(x, c) == x.num <= c * x.den

InviteThreshold == 70

CVFit(cv_id, fit_score, invite, strengths, gaps, reason) ==
    [cv_id |-> cv_id, fit_score |-> fit_score, invite |-> invite,
     strengths |-> strengths, gaps |-> gaps, reason |-> reason]

\* pydantic validation of CVFit(**data): Field(ge=0.0, le=1.0), Literal["yes","no"]
CVFitValid(data) ==
    /\ FracGeq(data.fit_score, 0)
    /\ FracLeq(data.fit_score, 100)
    /\ data.invite \in {"yes", "no"}

RECURSIVE FracSum(_)
FracSum(xs) == IF xs = <<>> THEN Frac(0, 1) ELSE FracAdd(Head(xs), FracSum(Tail(xs)))

mean_off_by_one(xs) ==
    LET s == FracSum(xs) IN Frac(s.num, s.den * (Len(xs) + 1))

\* statistics.mean over a non-empty sequence of scores
mean(xs) ==
    LET s == FracSum(xs) IN Frac(s.num, s.den * Len(xs))

Count(xs, x) == Cardinality({i \in 1..Len(xs) : xs[i] = x})

FirstIdx(xs, x) == CHOOSE i \in 1..Len(xs) : xs[i] = x /\ \A j \in 1..(i - 1) : xs[j] # x

\* Counter(xs).most_common(1)[0][0]: the highest count; among equal counts
\* the element encountered first
most_common_1(xs) ==
    CHOOSE x \in {xs[i] : i \in 1..Len(xs)} :
        \A y \in {xs[i] : i \in 1..Len(xs)} :
            \/ Count(xs, x) > Count(xs, y)
            \/ Count(xs, x) = Count(xs, y) /\ FirstIdx(xs, x) <= FirstIdx(xs, y)

InSeq(x, xs) == \E i \in 1..Len(xs) : xs[i] = x

\* "for s in items: if s not in acc: acc.append(s)"
RECURSIVE AppendNew(_, _)
AppendNew(acc, items) ==
    IF items = <<>> THEN acc
    ELSE AppendNew(IF InSeq(Head(items), acc) THEN acc ELSE Append(acc, Head(items)),
                   Tail(items))

RECURSIVE MergeStrengths(_, _)
MergeStrengths(acc, results) ==
    IF results = <<>> THEN acc
    ELSE MergeStrengths(AppendNew(acc, Head(results).strengths), Tail(results))

RECURSIVE MergeGaps(_, _)
MergeGaps(acc, results) ==
    IF results = <<>> THEN acc
    ELSE MergeGaps(AppendNew(acc, Head(results).gaps), Tail(results))

MaxEvidence == 4

\* results is non-empty; on an empty list statistics.mean raises
aggregate_cv_scores(results) ==
    CVFit(results[1].cv_id,
          mean([i \in 1..Len(results) |-> results[i].fit_score]),
          most_common_1([i \in 1..Len(results) |-> results[i].invite]),
          Truncate(MergeStrengths(<<>>, results), MaxEvidence),
          Truncate(MergeGaps(<<>>, results), MaxEvidence),
          results[1].reason)

(***************************************************************************)
(* Oracle responses to a scoring request, as chat_json returns them        *)
(***************************************************************************)
Item(c) == PyStr(<<c>>)

\* cv_id, strengths, gaps and reason of a response
Evidence ==
    { [cv_id |-> "cv1", strengths |-> PyList(<<Item("a"), Item("b"), Item("c")>>),
       gaps |-> PyList(<<Item("g"), Item("h"), Item("i")>>), reason |-> "r1"],
      [cv_id |-> "cv2", strengths |-> PyList(<<Item("a"), Item("b"), Item("d")>>),
       gaps |-> PyNone, reason |-> "r2"],
      [cv_id |-> "cv1", strengths |-> PyStr(<<"a">>),
       gaps |-> PyList(<<Item("g"), PyStr(<<>>), Item("h"), Item("j"), Item("k")>>),
       reason |-> "r1"] }

AggScores == {0, 69, 70, 100}

\* lines 163-165 of main: both list fields normalized, then CVFit(**data)
BuildSample(data) ==
    CVFit(data.cv_id, Frac(data.fit_score, 1), data.invite,
          normalize_list_field(data.strengths, DefaultMinItems),
          normalize_list_field(data.gaps, DefaultMinItems),
          data.reason)

RawData(e, score, invite) ==
    [cv_id |-> e.cv_id, fit_score |-> score, invite |-> invite,
     strengths |-> e.strengths, gaps |-> e.gaps, reason |-> e.reason]

AggVerdicts ==
    {BuildSample(RawData(e, s, inv)) : e \in Evidence, s \in AggScores, inv \in {"yes", "no"}}

(***************************************************************************)
(* Specification SpecAgg: aggregate_cv_scores applied to bounded inputs    *)
(***************************************************************************)
InitAgg ==
    /\ arg \in (SeqsUpTo(AggVerdicts, MaxAggSamples) \ {<<>>})
    /\ ret = <<>>
    /\ called = FALSE
    /\ MainIdle

AggregateCall ==
    /\ ~called
    /\ called' = TRUE
    /\ ret' = aggregate_cv_scores(arg)
    /\ UNCHANGED <<arg, mainVars>>

NextAgg == AggregateCall

SpecAgg == InitAgg /\ [][NextAgg]_vars

Invites(results) == [i \in 1..Len(results) |-> results[i].invite]

\* C1: when as many samples say 'yes' as say 'no', the aggregated invite
\* decision is 'no', whatever the order of the samples.
C1_TieResolvesToNo ==
    (called /\ Count(Invites(arg), "yes") = Count(Invites(arg), "no"))
        => ret.invite = "no"

\* C5: aggregating a single valid sample verdict returns that verdict
\* unchanged in every field, also when its lists contain repeated items.
C5_SingletonIdentity ==
    (called /\ Len(arg) = 1) => ret = arg[1]

RuleHolds(v) == (v.invite = "yes") <=> FracGeq(v.fit_score, InviteThreshold)

AllFollowRule(results) == \A i \in 1..Len(results) : RuleHolds(results[i])

\* C10 as stated: if every sample has invite = yes exactly when its score
\* is at least 0.70, so has the aggregated verdict.
C10_RulePreserved ==
    (called /\ AllFollowRule(arg)) => RuleHolds(ret)

Unanimous(results) == \A i \in 1..Len(results) : results[i].invite = results[1].invite

\* C10 amended: if every sample has invite = yes exactly when its score is
\* at least 0.70 and all samples carry the same invite decision, the
\* aggregated verdict has invite = yes exactly when its score is at least 0.70.
C10_RulePreservedWhenUnanimous ==
    (called /\ AllFollowRule(arg) /\ Unanimous(arg)) => RuleHolds(ret)

C10_Witness ==
    /\ called
    /\ Len(arg) >= 2
    /\ AllFollowRule(arg)
    /\ Unanimous(arg)
    /\ \E i \in 1..Len(arg) : arg[i].fit_score # arg[1].fit_score
    /\ ret.invite = "yes"

(***************************************************************************)
(* llmutils.extract_json                                                   *)
(* A text is a sequence of lexemes: single characters, the three-backtick  *)
(* fence marker, and a whole string literal.                               *)
(***************************************************************************)
Fence == "<fence>"

StrLit == "\"s\""

Ctrl == "<0x01>"

TextAlphabet == {"{", "}", "[", "]", "1", StrLit, ":", " ", Ctrl, "x", Fence}

JsonWs == {" ", "\t", "\n", "\r"}

\* the control characters (0x00-0x1F, 0x7F) that a text can hold
ControlChars == {Ctrl, "\t", "\n", "\r"}

RECURSIVE SkipWs(_, _)
SkipWs(t, i) == IF i <= Len(t) /\ t[i] \in JsonWs THEN SkipWs(t, i + 1) ELSE i

RECURSIVE SkipDigits(_, _)
SkipDigits(t, i) == IF i <= Len(t) /\ t[i] = "1" THEN SkipDigits(t, i + 1) ELSE i

ParseFail == [ok |-> FALSE, next |-> 0, type |-> "none"]

ParseOk(n, ty) == [ok |-> TRUE, next |-> n, type |-> ty]

At(t, i) == IF i <= Len(t) THEN t[i] ELSE "<eof>"

\* the JSON grammar over TextAlphabet: number, string, array and object
\* with at most one member (the alphabet has no comma)
RECURSIVE ParseValue(_, _)
ParseValue(t, i) ==
    LET j == SkipWs(t, i)
        c == At(t, j)
    IN  CASE c = "1" -> ParseOk(SkipDigits(t, j), "number")
          [] c = StrLit -> ParseOk(j + 1, "string")
          [] c = "[" ->
                LET k == SkipWs(t, j + 1)
                IN  IF At(t, k) = "]" THEN ParseOk(k + 1, "list")
                    ELSE LET v == ParseValue(t, k)
                             e == IF v.ok THEN SkipWs(t, v.next) ELSE 0
                         IN  IF v.ok /\ At(t, e) = "]" THEN ParseOk(e + 1, "list")
                             ELSE ParseFail
          [] c = "{" ->
                LET k == SkipWs(t, j + 1)
                IN  IF At(t, k) = "}" THEN ParseOk(k + 1, "dict")
                    ELSE IF At(t, k) = StrLit /\ At(t, SkipWs(t, k + 1)) = ":"
                    THEN LET v == ParseValue(t, SkipWs(t, k + 1) + 1)
                             e == IF v.ok THEN SkipWs(t, v.next) ELSE 0
                         IN  IF v.ok /\ At(t, e) = "}" THEN ParseOk(e + 1, "dict")
                             ELSE ParseFail
                    ELSE ParseFail
          [] OTHER -> ParseFail

Raised == [raised |-> TRUE, type |-> "none"]

Returned(ty) == [raised |-> FALSE, type |-> ty]

\* json.loads: one value, then only whitespace
json_loads(t) ==
    LET v == ParseValue(t, 1)
    IN  IF v.ok /\ SkipWs(t, v.next) > Len(t) THEN Returned(v.type) ELSE Raised

\* str.strip() of a text
StripText(t) == Strip(t)

\* re.sub of a leading fence marker and the whitespace after it (line 11)
StripLeadingFence(t) ==
    IF t # <<>> /\ t[1] = Fence THEN LStrip(Tail(t)) ELSE t

\* re.sub of a trailing fence marker and the whitespace before it (line 12)
StripTrailingFence(t) ==
    IF t # <<>> /\ t[Len(t)] = Fence THEN RStrip(SubSeq(t, 1, Len(t) - 1)) ELSE t

OpenIdx(t) == {i \in 1..Len(t) : t[i] = "{"}

CloseIdx(t) == {i \in 1..Len(t) : t[i] = "}"}

\* re.search of an opening brace followed later by a closing brace (DOTALL) finds a match
HasBraceSpan(t) == \E i \in OpenIdx(t) : \E j \in CloseIdx(t) : i < j

MinOf(S) == CHOOSE x \in S : \A y \in S : x <= y

MaxOf(S) == CHOOSE x \in S : \A y \in S : x >= y

\* m.group(0): from the leftmost opening brace, greedy up to the last closing brace
BraceSpan(t) == SubSeq(t, MinOf(OpenIdx(t)), MaxOf(CloseIdx(t)))

\* re.sub removing every control character from the candidate (line 25)
RemoveControl(t) == SelectSeq(t, LAMBDA c : c \notin ControlChars)

extract_json(text) ==
    LET t1 == StripTrailingFence(StripLeadingFence(StripText(text)))
        direct == json_loads(t1)
    IN  IF ~direct.raised THEN direct
        ELSE IF ~HasBraceSpan(t1) THEN Raised
        ELSE json_loads(RemoveControl(BraceSpan(t1)))

(***************************************************************************)
(* Specification SpecExtract: extract_json applied to bounded texts        *)
(***************************************************************************)
InitExtract ==
    /\ arg \in SeqsUpTo(TextAlphabet, MaxTextLen)
    /\ ret = <<>>
    /\ called = FALSE
    /\ MainIdle

ExtractCall ==
    /\ ~called
    /\ called' = TRUE
    /\ ret' = extract_json(arg)
    /\ UNCHANGED <<arg, mainVars>>

NextExtract == ExtractCall

SpecExtract == InitExtract /\ [][NextExtract]_vars

\* C7: extract_json raises on every text without a brace-delimited span, and
\* whatever it returns is a dict.
C7_ExtractOnlyObjects ==
    called =>
        /\ (~HasBraceSpan(arg) => ret.raised)
        /\ (~ret.raised => ret.type = "dict")

(***************************************************************************)
(* jobfinder.main: one run of the pipeline                                 *)
(***************************************************************************)
CvNames == <<"cv1", "cv2", "cv3", "cv4">>

\* list_cvs(): the stems of data/cvs/*.txt, sorted
CvLists == {SubSeq(CvNames, 1, k) : k \in 0..MaxCvs}

MainEvidence ==
    { [cv_id |-> "cv1", strengths |-> PyList(<<Item("a"), Item("b"), Item("c")>>),
       gaps |-> PyList(<<Item("g"), Item("h"), Item("i")>>), reason |-> "r1"],
      [cv_id |-> "cv2", strengths |-> PyList(<<Item("a"), Item("b"), Item("d")>>),
       gaps |-> PyNone, reason |-> "r2"] }

\* what chat_json can return for a scoring request: responses CVFit accepts
\* and responses it rejects (score out of range, invite not a literal)
ScoreResponses ==
    {RawData(e, 80, "yes") : e \in MainEvidence}
    \cup {RawData(e, 60, "no") : e \in MainEvidence}
    \cup {RawData(e, 150, "yes") : e \in {x \in MainEvidence : x.cv_id = "cv1"}}
    \cup {RawData(e, 60, "maybe") : e \in {x \in MainEvidence : x.cv_id = "cv2"}}

Absent == [t |-> "absent"]

RankingResult(ranking, recommendation, notes) ==
    [ranking |-> ranking, recommendation |-> recommendation, notes |-> notes]

\* pydantic validation of RankingResult(**rank_data): every entry a CVFit
RankingResultValid(rank_data) ==
    \A i \in 1..Len(rank_data.ranking) : CVFitValid(rank_data.ranking[i])

Reverse(l) == [i \in 1..Len(l) |-> l[Len(l) + 1 - i]]

Ids(l) == [i \in 1..Len(l) |-> l[i].cv_id]

YesIds(l) == Ids(SelectSeq(l, LAMBDA v : v.invite = "yes"))

NoIds(l) == Ids(SelectSeq(l, LAMBDA v : v.invite # "yes"))

OutOfRangeEntry ==
    CVFit("cv1", Frac(150, 1), "yes", <<<<"a">>>>, <<<<"g">>>>, "r1")

\* an entry the schema accepts: List[str] has no length constraint
ShortListEntry ==
    CVFit("cv1", Frac(50, 1), "no", <<<<"a">>, <<"b">>>>, <<>>, "r1")

\* what chat_json can return for the ranking request, given the summary
RankResponses(agg) ==
    {RankingResult(r, [invite |-> i, reject |-> j], "n") :
        r \in {agg, Reverse(agg), <<>>, Append(agg, OutOfRangeEntry), <<ShortListEntry>>},
        i \in {PyList(YesIds(agg)), PyList(Ids(agg)), Absent, PyNum(5)},
        j \in {PyList(NoIds(agg)), PyList(<<>>)}}

Init ==
    /\ arg = <<>>
    /\ ret = <<>>
    /\ called = FALSE
    /\ pc = "for_cv"
    /\ cvs \in CvLists
    /\ n_samples \in 0..MaxSamples
    /\ ci = 0
    /\ per_run = <<>>
    /\ aggregated = <<>>
    /\ scoreCalls = [i \in 1..Len(cvs) |-> [issued |-> 0, valid |-> 0]]
    /\ rankCalls = 0
    /\ sampleFailed = FALSE
    /\ result = <<>>
    /\ runDocs = <<>>
    /\ metricsRows = <<>>

Issue(sc, i, ok) ==
    [sc EXCEPT ![i] = [issued |-> @.issued + 1,
                       valid |-> @.valid + (IF ok THEN 1 ELSE 0)]]

\* line 150: the next candidate, or the end of the loop
NextCv ==
    /\ pc = "for_cv"
    /\ IF ci < Len(cvs)
       THEN /\ ci' = ci + 1
            /\ per_run' = <<>>
            /\ pc' = "sampling"
       ELSE /\ pc' = "rank"
            /\ UNCHANGED <<ci, per_run>>
    /\ UNCHANGED <<cvs, n_samples, aggregated, scoreCalls, rankCalls,
                   sampleFailed, result, runDocs, metricsRows, fnVars>>

\* lines 155-165: one sample, accepted by CVFit
ScoreSample ==
    /\ pc = "sampling"
    /\ Len(per_run) < n_samples
    /\ \E data \in ScoreResponses :
          /\ CVFitValid(BuildSample(data))
          /\ per_run' = Append(per_run, BuildSample(data))
    /\ scoreCalls' = Issue(scoreCalls, ci, TRUE)
    /\ UNCHANGED <<pc, cvs, n_samples, ci, aggregated, rankCalls,
                   sampleFailed, result, runDocs, metricsRows, fnVars>>

ScoreSampleFails_swallowed ==
    /\ pc = "sampling"
    /\ Len(per_run) < n_samples
    /\ scoreCalls' = Issue(scoreCalls, ci, FALSE)
    /\ sampleFailed' = TRUE
    /\ pc' = "for_cv"
    /\ UNCHANGED <<cvs, n_samples, ci, per_run, aggregated, rankCalls,
                   result, runDocs, metricsRows, fnVars>>

\* lines 162-165: chat_json raises, or CVFit rejects the response; the
\* exception leaves main
ScoreSampleFails ==
    /\ pc = "sampling"
    /\ Len(per_run) < n_samples
    /\ \/ TRUE
       \/ \E data \in ScoreResponses : ~CVFitValid(BuildSample(data))
    /\ scoreCalls' = Issue(scoreCalls, ci, FALSE)
    /\ sampleFailed' = TRUE
    /\ pc' = "failed"
    /\ UNCHANGED <<cvs, n_samples, ci, per_run, aggregated, rankCalls,
                   result, runDocs, metricsRows, fnVars>>

\* lines 167-168: the samples of the candidate are aggregated; mean raises
\* on an empty per_run
AggregateCv ==
    /\ pc = "sampling"
    /\ Len(per_run) >= n_samples
    /\ IF per_run = <<>>
       THEN /\ pc' = "failed"
            /\ UNCHANGED aggregated
       ELSE /\ aggregated' = Append(aggregated, aggregate_cv_scores(per_run))
            /\ pc' = "for_cv"
    /\ UNCHANGED <<cvs, n_samples, ci, per_run, scoreCalls, rankCalls,
                   sampleFailed, result, runDocs, metricsRows, fnVars>>

\* lines 189-190: the ranking request, accepted by RankingResult
RankRequest ==
    /\ pc = "rank"
    /\ rankCalls' = rankCalls + 1
    /\ \E rank_data \in RankResponses(aggregated) :
          /\ RankingResultValid(rank_data)
          /\ result' = rank_data
    /\ pc' = "save"
    /\ UNCHANGED <<cvs, n_samples, ci, per_run, aggregated, scoreCalls,
                   sampleFailed, runDocs, metricsRows, fnVars>>

\* lines 189-190: chat_json raises, or RankingResult rejects the response
RankRequestFails ==
    /\ pc = "rank"
    /\ rankCalls' = rankCalls + 1
    /\ \/ TRUE
       \/ \E rank_data \in RankResponses(aggregated) : ~RankingResultValid(rank_data)
    /\ pc' = "failed"
    /\ UNCHANGED <<cvs, n_samples, ci, per_run, aggregated, scoreCalls,
                   sampleFailed, result, runDocs, metricsRows, fnVars>>

\* lines 193-195: the run document is written
SaveRun ==
    /\ pc = "save"
    /\ runDocs' = Append(runDocs, [content |-> result, complete |-> TRUE])
    /\ pc' = "metrics"
    /\ UNCHANGED <<cvs, n_samples, ci, per_run, aggregated, scoreCalls,
                   rankCalls, sampleFailed, result, metricsRows, fnVars>>

\* lines 193-195: mkdir or write_text raises; the file is absent or partial
SaveRunFails ==
    /\ pc = "save"
    /\ \/ runDocs' = runDocs
       \/ runDocs' = Append(runDocs, [content |-> result, complete |-> FALSE])
    /\ pc' = "failed"
    /\ UNCHANGED <<cvs, n_samples, ci, per_run, aggregated, scoreCalls,
                   rankCalls, sampleFailed, result, metricsRows, fnVars>>

\* result.recommendation.get("invite", [])
GetInvite(recommendation) ==
    IF recommendation.invite = Absent THEN PyList(<<>>) ELSE recommendation.invite

\* line 198: len() raises on a value that has no length
InvitesRaises(res) == GetInvite(res.recommendation).t # "list"

MetricsRow(res) ==
    [n_samples |-> n_samples,
     invites |-> Len(GetInvite(res.recommendation).v),
     top1 |-> IF res.ranking # <<>> THEN res.ranking[1].cv_id ELSE ""]

\* lines 198-207 and append_metrics: the metrics row is appended
AppendMetrics ==
    /\ pc = "metrics"
    /\ ~InvitesRaises(result)
    /\ metricsRows' = Append(metricsRows, MetricsRow(result))
    /\ pc' = "done"
    /\ UNCHANGED <<cvs, n_samples, ci, per_run, aggregated, scoreCalls,
                   rankCalls, sampleFailed, result, runDocs, fnVars>>

\* lines 198-207: len() raises, or append_metrics raises before the row
AppendMetricsFails ==
    /\ pc = "metrics"
    /\ pc' = "failed"
    /\ UNCHANGED <<cvs, n_samples, ci, per_run, aggregated, scoreCalls,
                   rankCalls, sampleFailed, result, runDocs, metricsRows, fnVars>>

Next ==
    \/ NextCv
    \/ ScoreSample
    \/ ScoreSampleFails
    \/ AggregateCv
    \/ RankRequest
    \/ RankRequestFails
    \/ SaveRun
    \/ SaveRunFails
    \/ AppendMetrics
    \/ AppendMetricsFails

Spec == Init /\ [][Next]_vars

(***************************************************************************)
(* Properties of a run                                                     *)
(***************************************************************************)
SeqSet(l) == {l[i] : i \in 1..Len(l)}

FracGe(x, y) == x.num * y.den >= y.num * x.den

SortedDesc(ranking) ==
    \A i, j \in 1..Len(ranking) :
        i < j => FracGe(ranking[i].fit_score, ranking[j].fit_score)

RunResultConsistent(res) ==
    /\ res.recommendation.invite.t = "list"
    /\ res.recommendation.reject.t = "list"
    /\ LET inv == SeqSet(res.recommendation.invite.v)
           rej == SeqSet(res.recommendation.reject.v)
       IN  /\ inv \cap rej = {}
           /\ inv \cup rej = SeqSet(Ids(res.ranking))
           /\ inv = SeqSet(YesIds(res.ranking))
    /\ SortedDesc(res.ranking)

\* C2: every RunResult main constructs and persists has disjoint invite and
\* reject lists whose union is the cv_ids of the ranking, invite holding
\* exactly the entries with invite = yes, and a ranking sorted by fit_score
\* non-increasing.
C2_PersistedResultConsistent ==
    \A d \in 1..Len(runDocs) :
        runDocs[d].complete => RunResultConsistent(runDocs[d].content)

CompleteDocs == SelectSeq(runDocs, LAMBDA d : d.complete)

\* C3: a run that fails leaves neither a run document nor a metrics row; a
\* document and a row are only produced together, by a successful run.
C3_FailedRunLeavesNothing ==
    /\ pc = "failed" => (CompleteDocs = <<>> /\ metricsRows = <<>>)
    /\ pc \in {"failed", "done"} => Len(CompleteDocs) = Len(metricsRows)

WellFormed(v) ==
    /\ FracGeq(v.fit_score, 0)
    /\ FracLeq(v.fit_score, 100)
    /\ v.invite \in {"yes", "no"}
    /\ Len(v.strengths) = 3
    /\ Len(v.gaps) = 3

\* C4: every verdict of the pipeline (sample, aggregated, ranking entry) has
\* a score within [0, 1], invite yes or no, exactly 3 strengths and 3 gaps.
C4_VerdictsWellFormed ==
    /\ \A i \in 1..Len(per_run) : WellFormed(per_run[i])
    /\ \A i \in 1..Len(aggregated) : WellFormed(aggregated[i])
    /\ pc \in {"save", "metrics", "done"} =>
          \A i \in 1..Len(result.ranking) : WellFormed(result.ranking[i])

\* C8: the aggregated verdict of a candidate carries the identifier of that
\* candidate, whatever cv_id the oracle put into the samples.
C8_AggregatedIdIsCandidate ==
    \A i \in 1..Len(aggregated) : aggregated[i].cv_id = cvs[i]

\* C9: the ranking request is issued at most once, only after every
\* candidate had exactly n_samples scoring requests issued and validated and
\* has an aggregated verdict; never after a failed sample; exactly once in a
\* successful run.
C9_RankingBarrier ==
    /\ rankCalls <= 1
    /\ rankCalls = 1 =>
          /\ Len(aggregated) = Len(cvs)
          /\ \A i \in 1..Len(cvs) :
                scoreCalls[i] = [issued |-> n_samples, valid |-> n_samples]
    /\ sampleFailed => rankCalls = 0
    /\ pc = "done" => rankCalls = 1

C9_Witness ==
    /\ pc = "done"
    /\ rankCalls = 1
    /\ Len(cvs) >= 2
    /\ n_samples >= 2
    /\ Len(aggregated) = Len(cvs)

====
